---- MODULE Spec2Model ----
(***************************************************************************)
(* A model of TimeParser (src/timeParser.ts): suggest(input) at a given    *)
(* current time, and guessTime.                                            *)
(*                                                                         *)
(* Strings the program inspects (the input, the residual word, the time    *)
(* phrase handed to the calendar engine) are sequences of one-character    *)
(* strings.  Labels the program only produces are TLA+ strings.            *)
(* Instants are minutes counted from January 1st, 00:00, of the current    *)
(* year; the years of the model have 365 days and the current year starts  *)
(* on a Thursday.                                                          *)
(***************************************************************************)
EXTENDS Integers, Sequences, FiniteSets, TLC

VARIABLES input, now, pc, word, time, dayOfMonth, digits, res, origin, threw, arg, out

vars == <<input, now, pc, word, time, dayOfMonth, digits, res, origin, threw, arg, out>>

(***************************************************************************)
(* Characters and strings.                                                 *)
(***************************************************************************)
Digit == {"0", "1", "2", "3", "4", "5", "6", "7", "8", "9"}

Space == {" "}

DigitVal(c) ==
  CASE c = "0" -> 0 [] c = "1" -> 1 [] c = "2" -> 2 [] c = "3" -> 3 [] c = "4" -> 4
    [] c = "5" -> 5 [] c = "6" -> 6 [] c = "7" -> 7 [] c = "8" -> 8 [] c = "9" -> 9

\* A value that was never assigned (let dayOfMonth: number; digits[i] past the end).
Undefined == -1

\* JavaScript truthiness of a number that may be undefined.
Truthy(n) == n # Undefined /\ n # 0

\* String.prototype.toLowerCase, on the letters the inputs of the model use.
toLowerCaseChar(c) ==
  CASE c = "A" -> "a" [] c = "M" -> "m" [] c = "P" -> "p" [] c = "T" -> "t"
    [] OTHER -> c

toLowerCase(s) == [i \in 1..Len(s) |-> toLowerCaseChar(s[i])]

\* The first index from i on whose character is not in S (Len(s)+1 if none).
RECURSIVE RunEnd(_, _, _)
RunEnd(s, i, S) == IF i <= Len(s) /\ s[i] \in S THEN RunEnd(s, i + 1, S) ELSE i

\* The last index down from i whose character is not a space (0 if none).
RECURSIVE RunStart(_, _)
RunStart(s, i) == IF i >= 1 /\ s[i] \in Space THEN RunStart(s, i - 1) ELSE i

\* String.prototype.trim
trim(s) == SubSeq(s, RunEnd(s, 1, Space), RunStart(s, Len(s)))

\* String.prototype.startsWith
startsWith(s, p) == Len(p) <= Len(s) /\ SubSeq(s, 1, Len(p)) = p

\* parseInt of a run of digits
RECURSIVE parseInt(_)
parseInt(s) ==
  IF s = <<>> THEN 0 ELSE parseInt(SubSeq(s, 1, Len(s) - 1)) * 10 + DigitVal(s[Len(s)])

\* '0'.repeat(n), for n >= 0
RECURSIVE repeatZero(_)
repeatZero(n) == IF n = 0 THEN <<>> ELSE <<"0">> \o repeatZero(n - 1)

(***************************************************************************)
(* The tokenizer: input.replace with the digit-run pattern (a run of       *)
(* digits, an optional ':' or '.' with further digits, spaces, an optional *)
(* suffix am, a, pm, p, st, nd, rd, th), the g flag and the classifying    *)
(* callback.                                                               *)
(***************************************************************************)
\* (am?|pm?|st|nd|rd|th)? at index i: the alternatives in order, else empty.
SuffixAt(s, i) ==
  LET has(k, c) == k <= Len(s) /\ s[k] = c
  IN  IF has(i, "a") THEN (IF has(i + 1, "m") THEN <<"a", "m">> ELSE <<"a">>)
      ELSE IF has(i, "p") THEN (IF has(i + 1, "m") THEN <<"p", "m">> ELSE <<"p">>)
      ELSE IF has(i, "s") /\ has(i + 1, "t") THEN <<"s", "t">>
      ELSE IF has(i, "n") /\ has(i + 1, "d") THEN <<"n", "d">>
      ELSE IF has(i, "r") /\ has(i + 1, "d") THEN <<"r", "d">>
      ELSE IF has(i, "t") /\ has(i + 1, "h") THEN <<"t", "h">>
      ELSE <<>>

\* The match of the pattern that starts at the digit at index i: every
\* quantifier is greedy and nothing after it can fail, so there is no
\* backtracking.  end is the index after the match.
MatchAt(s, i) ==
  LET numEnd == RunEnd(s, i, Digit)
      hasMin == numEnd <= Len(s) /\ s[numEnd] \in {":", "."}
      minEnd == IF hasMin THEN RunEnd(s, numEnd + 1, Digit) ELSE numEnd
      spEnd  == RunEnd(s, minEnd, Space)
      suffix == SuffixAt(s, spEnd)
  IN  [num |-> SubSeq(s, i, numEnd - 1), min |-> SubSeq(s, numEnd, minEnd - 1),
       suffix |-> suffix, end |-> spEnd + Len(suffix)]

\* suffix?.match(/^a|p/): the suffix starts with "a", or holds a "p".
MatchesAorP(suffix) ==
  \/ (suffix # <<>> /\ suffix[1] = "a")
  \/ \E k \in 1..Len(suffix) : suffix[k] = "p"

\* min.replace('.', ':'), then min + '0'.repeat(3 - min.length)
cleanMin(min) == [k \in 1..Len(min) |-> IF k = 1 /\ min[k] = "." THEN ":" ELSE min[k]]
                   \o repeatZero(3 - Len(min))

\* The replace callback on one match m, acting on the classified fields c.
\* '0'.repeat of a negative count raises a RangeError.
Callback(c, m) ==
  IF m.min # <<>> \/ MatchesAorP(m.suffix) THEN
    IF m.min # <<>> /\ 3 - Len(m.min) < 0 THEN [c EXCEPT !.threw = "RangeError"]
    ELSE LET min    == IF m.min # <<>> THEN cleanMin(m.min) ELSE <<>>
             period == IF m.suffix # <<>> /\ m.suffix[1] = "a" THEN <<"a", "m">> ELSE <<"p", "m">>
         IN  [c EXCEPT !.time = m.num \o min \o <<" ">> \o period]
  ELSE IF m.suffix = <<>> THEN [c EXCEPT !.digits = Append(@, parseInt(m.num))]
  ELSE [c EXCEPT !.dayOfMonth = parseInt(m.num)]

\* The scan of replace without the g flag: only the first match is removed.
ScanFirstOnly(s, i, c) ==
  LET j == RunEnd(s, i, {s[k] : k \in 1..Len(s)} \ Digit)
  IN  IF j > Len(s) THEN [c EXCEPT !.word = s]
      ELSE LET m == MatchAt(s, j)
               d == Callback(c, m)
           IN  [d EXCEPT !.word = SubSeq(s, 1, j - 1) \o SubSeq(s, m.end, Len(s))]

\* The scan of replace with the g flag, from index i: every match is removed.
RECURSIVE Scan(_, _, _)
Scan(s, i, c) ==
  IF i > Len(s) \/ c.threw # "none" THEN c
  ELSE IF s[i] \in Digit THEN LET m == MatchAt(s, i) IN Scan(s, m.end, Callback(c, m))
  ELSE Scan(s, i + 1, [c EXCEPT !.word = Append(@, s[i])])

NoFields == [word |-> <<>>, time |-> <<>>, dayOfMonth |-> Undefined, digits |-> <<>>,
             threw |-> "none"]

replaceDigits(s) == Scan(s, 1, NoFields)

\* word.replace(/\s+at?/, ''): the first run of spaces that an "a" follows
\* goes, with the "a" and a "t" after it.
RECURSIVE stripAtFrom(_, _)
stripAtFrom(s, i) ==
  IF i > Len(s) THEN s
  ELSE IF s[i] \in Space THEN
    LET e == RunEnd(s, i, Space)
    IN  IF e <= Len(s) /\ s[e] = "a"
        THEN LET f == IF e + 1 <= Len(s) /\ s[e + 1] = "t" THEN e + 2 ELSE e + 1
             IN  SubSeq(s, 1, i - 1) \o SubSeq(s, f, Len(s))
        ELSE stripAtFrom(s, e)
  ELSE stripAtFrom(s, i + 1)

stripAt(s) == stripAtFrom(s, 1)

\* Lines 24-45 of suggest: the classified fields and the residual word.
classify(s) ==
  LET c == replaceDigits(toLowerCase(trim(s)))
  IN  IF c.threw # "none" THEN c ELSE [c EXCEPT !.word = stripAt(trim(c.word))]

\* digits[i] of the source (i from 0)
digitAt(ds, i) == IF i + 1 <= Len(ds) THEN ds[i + 1] ELSE Undefined

(***************************************************************************)
(* guessTime.                                                              *)
(***************************************************************************)
\* The decimal digits of n >= 0 (template-literal interpolation of a number).
RECURSIVE numberToString(_)
numberToString(n) ==
  LET d == <<"0", "1", "2", "3", "4", "5", "6", "7", "8", "9">>[(n % 10) + 1]
  IN  IF n < 10 THEN <<d>> ELSE Append(numberToString(n \div 10), d)

\* guessTime with the comparison of the 12-hour clock dropped: no "n > 12" case.
guessTimeNoWrap(num) ==
  IF ~Truthy(num) THEN <<"8", " ", "a", "m">>
  ELSE IF num < 8 THEN numberToString(num) \o <<" ", "p", "m">>
  ELSE numberToString(num) \o <<" ", "a", "m">>

guessTime(num) ==
  IF ~Truthy(num) THEN <<"8", " ", "a", "m">>
  ELSE IF num > 12 THEN numberToString(num - 12) \o <<" ", "p", "m">>
  ELSE IF num < 8 THEN numberToString(num) \o <<" ", "p", "m">>
  ELSE numberToString(num) \o <<" ", "a", "m">>

(***************************************************************************)
(* The calendar engine (Sugar's Date): instants, Date.create on the        *)
(* phrases suggest builds, the predicates, the arithmetic and format.      *)
(* It is not part of the repository; it is modelled from its documented    *)
(* behaviour: a weekday name is the day of the current week (weeks start   *)
(* on Sunday), "next" is the week after, a month and day are of the        *)
(* current year, an hour is one or two digits up to 29, minutes are two    *)
(* digits up to 59, a day of the month one or two digits up to 39, and     *)
(* format refuses an invalid date with a TypeError.                         *)
(***************************************************************************)
MinutesPerDay == 24 * 60

DaysPerYear == 365

MonthLengths == <<31, 28, 31, 30, 31, 30, 31, 31, 30, 31, 30, 31>>

\* Days of the year before month m (1..12).
RECURSIVE DaysBefore(_)
DaysBefore(m) == IF m = 1 THEN 0 ELSE DaysBefore(m - 1) + MonthLengths[m - 1]

InvalidDate == [valid |-> FALSE, t |-> 0]

At(t) == [valid |-> TRUE, t |-> t]

DayOf(t) == t \div MinutesPerDay

StartOfDay(t) == DayOf(t) * MinutesPerDay

\* getDay: 0 is Sunday; January 1st of the current year is a Thursday.
getDay(t) == (DayOf(t) + 4) % 7

getHours(t) == (t % MinutesPerDay) \div 60

getMinutes(t) == t % 60

YearOf(t) == DayOf(t) \div DaysPerYear

DayOfYear(t) == DayOf(t) % DaysPerYear

\* getMonth + 1
MonthOf(t) == CHOOSE m \in 1..12 : /\ DaysBefore(m) <= DayOfYear(t)
                                   /\ DayOfYear(t) < DaysBefore(m) + MonthLengths[m]

\* getDate
DateOf(t) == DayOfYear(t) - DaysBefore(MonthOf(t)) + 1

\* The time of day a time phrase "<num>[:<mm>] <am|pm>" names, in minutes from
\* midnight, or -1 when the engine does not read it as a time.
ParseTime(t) ==
  LET numEnd == RunEnd(t, 1, Digit)
      num    == SubSeq(t, 1, numEnd - 1)
      hasMin == numEnd <= Len(t) /\ t[numEnd] = ":"
      minEnd == IF hasMin THEN RunEnd(t, numEnd + 1, Digit) ELSE numEnd
      min    == IF hasMin THEN SubSeq(t, numEnd + 1, minEnd - 1) ELSE <<"0", "0">>
      period == SubSeq(t, minEnd + 1, Len(t))
      h      == parseInt(num)
      hour   == IF period = <<"p", "m">> /\ h < 12 THEN h + 12
                ELSE IF period = <<"a", "m">> /\ h = 12 THEN 0 ELSE h
      ok     == /\ Len(num) \in 1..2 /\ h <= 29
                /\ Len(min) = 2 /\ parseInt(min) <= 59
                /\ minEnd <= Len(t) /\ t[minEnd] = " "
                /\ period \in {<<"a", "m">>, <<"p", "m">>}
  IN  IF ok THEN hour * 60 + parseInt(min) ELSE -1

\* Date.create(t), Date.create(`today ${t}`)
CreateToday(nw, t) ==
  IF ParseTime(t) < 0 THEN InvalidDate ELSE At(StartOfDay(nw) + ParseTime(t))

\* Date.create(`tomorrow ${t}`)
CreateTomorrow(nw, t) ==
  IF ParseTime(t) < 0 THEN InvalidDate
  ELSE At(StartOfDay(nw) + MinutesPerDay + ParseTime(t))

\* Date.create(`${hasNext ? 'next ' : ''} ${d} ${t}`), d the weekday 0..6
CreateWeekday(nw, next, d, t) ==
  IF ParseTime(t) < 0 THEN InvalidDate
  ELSE At(StartOfDay(nw) + (d - getDay(nw) + (IF next THEN 7 ELSE 0)) * MinutesPerDay
          + ParseTime(t))

\* Date.create(`${m} ${day} ${t}`), m the month 1..12
CreateMonthDay(nw, m, day, t) ==
  IF ParseTime(t) < 0 \/ day > 39 THEN InvalidDate
  ELSE At((YearOf(nw) * DaysPerYear + DaysBefore(m) + day - 1) * MinutesPerDay
          + ParseTime(t))

\* The instant n months after t: the same day of the month, or the last day
\* of a shorter month.
AddMonths(t, n) ==
  LET m0    == YearOf(t) * 12 + (MonthOf(t) - 1) + n
      y     == m0 \div 12
      m     == (m0 % 12) + 1
      day   == IF DateOf(t) > MonthLengths[m] THEN MonthLengths[m] ELSE DateOf(t)
  IN  (y * DaysPerYear + DaysBefore(m) + day - 1) * MinutesPerDay + (t % MinutesPerDay)

\* Date.create(`in ${n} ${unit}`)
CreateIn(nw, n, unit) ==
  CASE unit = "minutes" -> At(nw + n)
    [] unit = "hours"   -> At(nw + n * 60)
    [] unit = "days"    -> At(nw + n * MinutesPerDay)
    [] unit = "weeks"   -> At(nw + n * 7 * MinutesPerDay)
    [] unit = "months"  -> At(AddMonths(nw, n))
    [] unit = "years"   -> At(nw + n * DaysPerYear * MinutesPerDay)

isPast(nw, d) == d.valid /\ d.t < nw

isFuture(nw, d) == d.valid /\ d.t > nw

isToday(nw, d) == d.valid /\ DayOf(d.t) = DayOf(nw)

addHours(d, n) == IF d.valid THEN At(d.t + n * 60) ELSE d

addDays(d, n) == IF d.valid THEN At(d.t + n * MinutesPerDay) ELSE d

WeekdayNames == <<"Sunday", "Monday", "Tuesday", "Wednesday", "Thursday", "Friday",
                  "Saturday">>

DowNames == <<"Sun", "Mon", "Tue", "Wed", "Thu", "Fri", "Sat">>

MonthNames == <<"January", "February", "March", "April", "May", "June", "July",
                "August", "September", "October", "November", "December">>

MonNames == <<"Jan", "Feb", "Mar", "Apr", "May", "Jun", "Jul", "Aug", "Sep", "Oct",
              "Nov", "Dec">>

\* The format tokens {h}, {mm}, {tt}, {do}
FormatH(t) == ToString(((getHours(t) + 11) % 12) + 1)

FormatMM(t) == (IF getMinutes(t) < 10 THEN "0" ELSE "") \o ToString(getMinutes(t))

FormatTT(t) == IF getHours(t) < 12 THEN "am" ELSE "pm"

FormatDo(t) ==
  LET n == DateOf(t)
  IN  ToString(n) \o (IF n \in {11, 12, 13} THEN "th"
                      ELSE IF n % 10 = 1 THEN "st"
                      ELSE IF n % 10 = 2 THEN "nd"
                      ELSE IF n % 10 = 3 THEN "rd" ELSE "th")

(***************************************************************************)
(* The formatting helpers of TimeParser, on a valid date.                  *)
(***************************************************************************)
printConciseTime(d) ==
  IF getMinutes(d.t) # 0 THEN FormatH(d.t) \o ":" \o FormatMM(d.t) \o " " \o FormatTT(d.t)
  ELSE FormatH(d.t) \o " " \o FormatTT(d.t)

printPrecise(d) ==
  DowNames[getDay(d.t) + 1] \o ", " \o MonNames[MonthOf(d.t)] \o " " \o
  ToString(DateOf(d.t)) \o " at " \o printConciseTime(d)

(***************************************************************************)
(* The rules of suggest.  Each yields the candidates it builds, in order:  *)
(* the label, the date, and (for the properties) the rule and vocabulary   *)
(* entry that built it.                                                    *)
(***************************************************************************)
Intervals == <<<<"m", "i", "n", "u", "t", "e", "s">>, <<"h", "o", "u", "r", "s">>, <<"d", "a", "y", "s">>, <<"w", "e", "e", "k", "s">>, <<"m", "o", "n", "t", "h", "s">>, <<"y", "e", "a", "r", "s">>>>

IntervalNames == <<"minutes", "hours", "days", "weeks", "months", "years">>

\* i.replace(/s$/, '')
IntervalSingular == <<"minute", "hour", "day", "week", "month", "year">>

Days == <<<<"m", "o", "n", "d", "a", "y">>, <<"t", "u", "e", "s", "d", "a", "y">>, <<"w", "e", "d", "n", "e", "s", "d", "a", "y">>, <<"t", "h", "u", "r", "s", "d", "a", "y">>, <<"f", "r", "i", "d", "a", "y">>,
          <<"s", "a", "t", "u", "r", "d", "a", "y">>, <<"s", "u", "n", "d", "a", "y">>>>

\* getDay of the k-th entry of Days
DayIndex(k) == k % 7

Months == <<<<"j", "a", "n", "u", "a", "r", "y">>, <<"f", "e", "b", "r", "u", "a", "r", "y">>, <<"m", "a", "r", "c", "h">>, <<"a", "p", "r", "i", "l">>, <<"m", "a", "y">>, <<"j", "u", "n", "e">>,
            <<"j", "u", "l", "y">>, <<"a", "u", "g", "u", "s", "t">>, <<"s", "e", "p", "t", "e", "m", "b", "e", "r">>, <<"o", "c", "t", "o", "b", "e", "r">>, <<"n", "o", "v", "e", "m", "b", "e", "r">>,
            <<"d", "e", "c", "e", "m", "b", "e", "r">>>>

Candidate(natural, date, rule, entry) ==
  [natural |-> natural, date |-> date, rule |-> rule, entry |-> entry]

\* Array.prototype.filter: the kept entries of a vocabulary, S the set of their
\* indices, in the order of the vocabulary.
RECURSIVE Filter(_)
Filter(S) ==
  IF S = {} THEN <<>>
  ELSE LET m == CHOOSE i \in S : \A j \in S : j <= i IN Append(Filter(S \ {m}), m)

\* time || this.guessTime(digits[i])
timeOrGuess(i) == IF time # <<>> THEN time ELSE guessTime(digitAt(digits, i))

plural(n) == IF n # 1 THEN "s" ELSE ""

\* Lines 57-60.  The trigger of the bare-quantity rule.
bareQuantityTrigger == Len(word) = 0 /\ Truthy(digitAt(digits, 0)) /\ time = <<>>

bareQuantity ==
  LET n == digitAt(digits, 0)
  IN  IF bareQuantityTrigger
      THEN << Candidate("for " \o ToString(n) \o " hour" \o plural(n),
                        CreateIn(now, n, "hours"), "bareQuantity", 1),
              Candidate("for " \o ToString(n) \o " day" \o plural(n),
                        CreateIn(now, n, "days"), "bareQuantity", 2) >>
      ELSE <<>>

\* Lines 63-68.
bareTimeTrigger ==
  /\ Len(word) = 0
  /\ \/ time # <<>>
     \/ (Truthy(digitAt(digits, 0)) /\ digitAt(digits, 0) < 24)

bareTime ==
  LET d0   == CreateToday(now, timeOrGuess(0))
      date == IF isPast(now, d0) THEN addHours(d0, 24) ELSE d0
  IN  IF bareTimeTrigger
      THEN << Candidate((IF isToday(now, date) THEN "today" ELSE "tomorrow") \o ", "
                          \o printConciseTime(date), date, "bareTime", 1) >>
      ELSE <<>>

\* Lines 71-77.
intervalMatches(i) ==
  Len(digits) > 0 /\ Len(word) # 0 /\ startsWith(Intervals[i], word)

interval ==
  LET n  == digitAt(digits, 0)
      is == Filter({i \in 1..Len(Intervals) : intervalMatches(i)})
  IN  [k \in 1..Len(is) |->
         Candidate("for " \o ToString(n) \o " "
                     \o (IF n = 1 THEN IntervalSingular[is[k]] ELSE IntervalNames[is[k]]),
                   CreateIn(now, n, IntervalNames[is[k]]), "interval", is[k])]

\* A character \b counts as part of a word.
WordChar(c) == c \notin {" ", ":", "."}

NextAt(s, i) == i + 3 <= Len(s) /\ SubSeq(s, i, i + 3) = <<"n", "e", "x", "t">>

\* !!word.match(/\bnext\b/)
hasNextIn(s) ==
  \E i \in 1..Len(s) : /\ NextAt(s, i)
                       /\ (i = 1 \/ ~WordChar(s[i - 1]))
                       /\ (i + 4 > Len(s) \/ ~WordChar(s[i + 4]))

\* word.replace(/\s*next\s*/, ''): the first "next" goes, with the spaces
\* around it.
withoutNextOf(s) ==
  LET hits == {i \in 1..Len(s) : NextAt(s, i)}
  IN  IF hits = {} THEN s
      ELSE LET p == CHOOSE i \in hits : \A j \in hits : i <= j
           IN  SubSeq(s, 1, RunStart(s, p - 1)) \o SubSeq(s, RunEnd(s, p + 4, Space), Len(s))

hasNext == hasNextIn(word)

withoutNext == withoutNextOf(word)

\* Lines 80-89.
dayMatches(k) == Len(withoutNext) # 0 /\ startsWith(Days[k], withoutNext)

\* Line 87: if (date.isPast() && date.isToday()) date.addDays(7)
weekdayDate(d0) == IF isPast(now, d0) /\ isToday(now, d0) THEN addDays(d0, 7) ELSE d0

weekday ==
  LET ds == Filter({k \in 1..Len(Days) : dayMatches(k)})
  IN  [k \in 1..Len(ds) |->
         LET date == weekdayDate(CreateWeekday(now, hasNext, DayIndex(ds[k]), timeOrGuess(0)))
         IN  Candidate((IF hasNext THEN "next" ELSE "on") \o " "
                         \o WeekdayNames[getDay(date.t) + 1] \o " at " \o FormatH(date.t)
                         \o " " \o FormatTT(date.t),
                       date, "weekday", ds[k])]

\* Lines 92-99.
monthMatches(m) == Len(word) # 0 /\ startsWith(Months[m], word)

\* dayOfMonth || digits[0] || '1'
monthDayOf ==
  IF Truthy(dayOfMonth) THEN dayOfMonth
  ELSE IF Truthy(digitAt(digits, 0)) THEN digitAt(digits, 0) ELSE 1

monthDay ==
  LET ms == Filter({m \in 1..Len(Months) : monthMatches(m)})
  IN  [k \in 1..Len(ms) |->
         LET date == CreateMonthDay(now, ms[k], monthDayOf, timeOrGuess(1))
             naturalTime == IF time # <<>> \/ Truthy(digitAt(digits, 1))
                            THEN " at " \o printConciseTime(date) ELSE ""
         IN  Candidate(MonthNames[MonthOf(date.t)] \o " " \o FormatDo(date.t)
                         \o naturalTime, date, "monthDay", ms[k])]

\* The test of line 103 without its word.length.
todayMatchesNoLength(w) == startsWith(<<"t", "o", "d", "a", "y">>, w) \/ startsWith(<<"t", "d", "y">>, w)

\* Line 103.
todayMatches(w) == Len(w) # 0 /\ (startsWith(<<"t", "o", "d", "a", "y">>, w) \/ startsWith(<<"t", "d", "y">>, w))

\* Lines 103-112.
today ==
  LET date == CreateToday(now, timeOrGuess(0))
  IN  IF ~todayMatches(word) THEN <<>>
      ELSE IF isFuture(now, date)
      THEN << Candidate("today at " \o printConciseTime(date), date, "today", 1) >>
      ELSE IF isPast(now, date) /\ getHours(date.t) < 12 /\ time = <<>>
      THEN << Candidate("today at " \o printConciseTime(addHours(date, 12)),
                        addHours(date, 12), "today", 1) >>
      ELSE <<>>

\* Line 114.
tomorrowMatches(w) == startsWith(<<"t", "o", "m", "o", "r", "r", "o", "w">>, w) \/ startsWith(<<"t", "m", "r", "w">>, w)

\* Lines 114-118.
tomorrow ==
  LET date == CreateTomorrow(now, timeOrGuess(0))
  IN  IF tomorrowMatches(word)
      THEN << Candidate("tomorrow at " \o printConciseTime(date), date, "tomorrow", 1) >>
      ELSE <<>>

\* Line 120.
tonightMatches(w) == Len(w) # 0 /\ (startsWith(<<"t", "o", "n", "i", "g", "h", "t">>, w) \/ startsWith(<<"t", "n", "i", "g", "h", "t">>, w))

\* Lines 120-124.
tonight ==
  LET t    == IF time # <<>> THEN time
              ELSE IF Truthy(digitAt(digits, 0)) THEN guessTime(digitAt(digits, 0))
              ELSE <<"6", " ", "p", "m">>
      date == CreateToday(now, t)
  IN  IF tonightMatches(word)
      THEN << Candidate("tonight at " \o printConciseTime(date), date, "tonight", 1) >>
      ELSE <<>>

(***************************************************************************)
(* suggest, one step per block of the method.                              *)
(***************************************************************************)
\* Array.prototype.unshift in place of push.
unshift(list, items) == items \o list

\* res.push, for each of items in order.
push(list, items) == list \o items

\* The candidates of a rule that are pushed: all of them, or those before the
\* first one whose invalid date makes format raise a TypeError.
Pushed(items) ==
  LET bad == {i \in 1..Len(items) : ~items[i].date.valid}
  IN  IF bad = {} THEN items
      ELSE SubSeq(items, 1, (CHOOSE i \in bad : \A j \in bad : i <= j) - 1)

Raises(items) == \E i \in 1..Len(items) : ~items[i].date.valid

Rule(p, nxt, items) ==
  /\ pc = p
  /\ res' = push(res, [i \in 1..Len(Pushed(items)) |->
                         [natural |-> Pushed(items)[i].natural, precise |-> "",
                          date |-> Pushed(items)[i].date]])
  /\ origin' = push(origin, [i \in 1..Len(Pushed(items)) |->
                               <<Pushed(items)[i].rule, Pushed(items)[i].entry>>])
  /\ threw' = IF Raises(items) THEN "TypeError" ELSE "none"
  /\ pc' = IF Raises(items) THEN "done" ELSE nxt
  /\ UNCHANGED <<input, now, word, time, dayOfMonth, digits, arg, out>>

\* Lines 24-45.
Classify ==
  /\ pc = "classify"
  /\ LET c == classify(input)
     IN  /\ word' = c.word
         /\ time' = c.time
         /\ dayOfMonth' = c.dayOfMonth
         /\ digits' = c.digits
         /\ threw' = c.threw
         /\ pc' = IF c.threw # "none" THEN "done" ELSE "bareQuantity"
  /\ UNCHANGED <<input, now, res, origin, arg, out>>

BareQuantity == Rule("bareQuantity", "bareTime", bareQuantity)

BareTime == Rule("bareTime", "interval", bareTime)

Interval == Rule("interval", "weekday", interval)

Weekday == Rule("weekday", "monthDay", weekday)

MonthDay == Rule("monthDay", "today", monthDay)

Today == Rule("today", "tomorrow", today)

Tomorrow == Rule("tomorrow", "tonight", tomorrow)

Tonight == Rule("tonight", "precise", tonight)

\* Lines 126-130.
Precise ==
  /\ pc = "precise"
  /\ res' = [i \in 1..Len(res) |-> [res[i] EXCEPT !.precise = printPrecise(res[i].date)]]
  /\ pc' = "done"
  /\ UNCHANGED <<input, now, word, time, dayOfMonth, digits, origin, threw, arg, out>>

\* suggest returned its list.
Returned == pc = "done" /\ threw = "none"

Next ==
  \/ Classify
  \/ BareQuantity
  \/ BareTime
  \/ Interval
  \/ Weekday
  \/ MonthDay
  \/ Today
  \/ Tomorrow
  \/ Tonight
  \/ Precise

(***************************************************************************)
(* The calls of suggest that are checked.                                  *)
(***************************************************************************)
\* The number of numeric tokens an input holds at most.
MaxTokens == 2

\* The current time: day of the year (from 0), hour, minute.
Clock(day, h, m) == day * MinutesPerDay + h * 60 + m

\* Wednesday October 28th 13:30, Friday October 30th 19:30, Monday March 2nd 7:00.
Nows == {Clock(300, 13, 30), Clock(302, 19, 30), Clock(60, 7, 0)}

Words == { <<>>, <<"t">>, <<"t", "o">>, <<"t", "o", "d">>, <<"t", "o", "m">>, <<"t", "o", "n", "i", "g", "h", "t">>, <<"t", "m", "r", "w">>, <<"m", "o", "n">>,
           <<"s">>, <<"n", "e", "x", "t", " ", "t", "u", "e">>, <<"m">>, <<"m", "a", "r", "c", "h">>, <<"a", "p", "r", "i", "l">>, <<"a">>, <<"d">>, <<"h">>,
           <<"m", "i", "n">>, <<"j">>, <<"x">>, <<"T", "u", "e", " ", "a", "t">>, <<"w", "e", "d">>, <<"a", "t">>, <<"n", "e", "x", "t">>, <<"s", "a", "t", " ", "n", "e", "x", "t">> }

NumTokens == { <<"0">>, <<"1">>, <<"5">>, <<"1", "5">>, <<"9", "9">>, <<"3", "p", "m">>, <<"8", " ", "a", "m">>, <<"9", ":", "3", "0">>, <<"3", "r", "d">>,
               <<"9", "9", "p", "m">> }

RECURSIVE Join(_)
Join(pieces) ==
  IF pieces = <<>> THEN <<>>
  ELSE IF Len(pieces) = 1 THEN pieces[1]
  ELSE pieces[1] \o <<" ">> \o Join(Tail(pieces))

\* The word before or after the numeric tokens.
Inputs ==
  { Join(toks) : toks \in UNION {[1..k -> NumTokens] : k \in 0..MaxTokens} }
  \cup { Join(<<w>> \o toks) : w \in Words \ {<<>>},
                               toks \in UNION {[1..k -> NumTokens] : k \in 0..MaxTokens} }
  \cup { Join(toks \o <<w>>) : w \in Words \ {<<>>},
                               toks \in UNION {[1..k -> NumTokens] : k \in 1..MaxTokens} }

Start ==
  /\ pc = "classify"
  /\ word = <<>>
  /\ time = <<>>
  /\ dayOfMonth = Undefined
  /\ digits = <<>>
  /\ res = <<>>
  /\ origin = <<>>
  /\ threw = "none"
  /\ out = <<>>

Init ==
  /\ input \in Inputs
  /\ now \in Nows
  /\ arg = Undefined
  /\ Start

Spec == Init /\ [][Next]_vars

(***************************************************************************)
(* Calls on a digit run, a ':' or '.', and further digits.                 *)
(***************************************************************************)
\* The number of digits after the ':' or '.' at most.
MaxMinuteDigits == 3

RECURSIVE DigitStrings(_)
DigitStrings(n) ==
  IF n = 0 THEN {<<>>}
  ELSE DigitStrings(n - 1)
       \cup {Append(r, c) : r \in {q \in DigitStrings(n - 1) : Len(q) = n - 1},
                            c \in {"0", "3"}}

DigitRunInputs ==
  { h \o sep \o more : h \in {<<"1">>, <<"5">>, <<"1", "2">>}, sep \in {<<":">>, <<".">>},
                       more \in DigitStrings(MaxMinuteDigits) }

InitDigitRuns ==
  /\ input \in DigitRunInputs
  /\ now \in Nows
  /\ arg = Undefined
  /\ Start

SpecDigitRuns == InitDigitRuns /\ [][Next]_vars

(***************************************************************************)
(* Calls on a prefix of "today", "tomorrow", "tonight" or of their short   *)
(* forms that is no prefix of another vocabulary entry.                    *)
(***************************************************************************)
RelativeDayWords == { <<"t", "o">>, <<"t", "o", "d">>, <<"t", "o", "d", "a", "y">>, <<"t", "d", "y">>, <<"t", "o", "m">>, <<"t", "o", "m", "o", "r", "r", "o", "w">>,
                      <<"t", "m", "r", "w">>, <<"t", "o", "n">>, <<"t", "o", "n", "i", "g", "h", "t">>, <<"t", "n">> }

RelativeDayInputs ==
  { Join(<<w>> \o toks) : w \in RelativeDayWords,
                          toks \in UNION {[1..k -> NumTokens] : k \in 0..MaxTokens} }

InitRelativeDay ==
  /\ input \in RelativeDayInputs
  /\ now \in Nows
  /\ arg = Undefined
  /\ Start

SpecRelativeDay == InitRelativeDay /\ [][Next]_vars

(***************************************************************************)
(* Calls on a month word and a day number, in either order.                *)
(***************************************************************************)
Prefixes(s) == {SubSeq(s, 1, k) : k \in 1..Len(s)}

MonthWords == UNION {Prefixes(Months[m]) : m \in 1..Len(Months)}

DayRuns == {<<"1">>, <<"3">>, <<"1", "5">>, <<"2", "8">>}

InitMonthDay ==
  /\ arg \in [m : MonthWords, n : DayRuns, numberFirst : BOOLEAN]
  /\ input = IF arg.numberFirst THEN arg.n \o <<" ">> \o arg.m ELSE arg.m \o <<" ">> \o arg.n
  /\ now \in Nows
  /\ Start

SpecMonthDay == InitMonthDay /\ [][Next]_vars

(***************************************************************************)
(* Calls of guessTime.                                                     *)
(***************************************************************************)
\* The largest number guessTime is called on.
MaxGuess == 60

Guess ==
  /\ pc = "guess"
  /\ out' = guessTime(arg)
  /\ pc' = "guessed"
  /\ UNCHANGED <<input, now, word, time, dayOfMonth, digits, res, origin, threw, arg>>

InitGuess ==
  /\ arg \in {Undefined} \cup 0..MaxGuess
  /\ pc = "guess"
  /\ input = <<>>
  /\ now = Clock(300, 13, 30)
  /\ word = <<>>
  /\ time = <<>>
  /\ dayOfMonth = Undefined
  /\ digits = <<>>
  /\ res = <<>>
  /\ origin = <<>>
  /\ threw = "none"
  /\ out = <<>>

SpecGuess == InitGuess /\ [][Guess]_vars

(***************************************************************************)
(* Properties.                                                             *)
(***************************************************************************)
\* C1: suggest is total: on every input, digit runs with a ':' or '.' and any
\* number of further digits included, it returns a list and raises no error.
C1_Total == threw = "none"

\* C2: every suggestion of every rule carries a date in the future of the
\* time suggest was called at.
C2_AllFuture == \A i \in 1..Len(res) : res[i].date.t > now

\* C3 as stated: with an empty residual word only the bare-quantity and
\* bare-time rules emit suggestions.
C3_OnlyBareRules ==
  (pc # "classify" /\ word = <<>>) =>
    \A i \in 1..Len(origin) : origin[i][1] \in {"bareQuantity", "bareTime"}

\* C3 as amended: with an empty residual word only the bare-quantity, the
\* bare-time and the tomorrow rules emit suggestions; the interval, weekday,
\* month-day, today and tonight rules emit nothing.
C3_OnlyBareAndTomorrow ==
  (pc # "classify" /\ word = <<>>) =>
    \A i \in 1..Len(origin) : origin[i][1] \in {"bareQuantity", "bareTime", "tomorrow"}

\* A call on "5"-like input with an empty word, returned with the suggestions
\* of the bare-quantity, bare-time and tomorrow rules.
C3_Witness ==
  /\ Returned /\ word = <<>> /\ input # <<>>
  /\ \E i, j, k \in 1..Len(origin) :
       origin[i][1] = "bareQuantity" /\ origin[j][1] = "bareTime" /\ origin[k][1] = "tomorrow"

OnlyDigits(s) == s # <<>> /\ \A k \in 1..Len(s) : s[k] \in Digit

\* C4: on an input that is one digit run of value N (N = 0 included), the
\* bare-quantity rule emits "for N hour(s)" and "for N day(s)", and for
\* N < 24 the bare-time rule emits one time suggestion after them.
C4_BareDigit ==
  (OnlyDigits(input) /\ pc \notin {"classify", "bareQuantity", "bareTime"}) =>
    LET N == parseInt(input)
    IN  /\ Len(res) >= 2
        /\ origin[1] = <<"bareQuantity", 1>>
        /\ res[1].natural = "for " \o ToString(N) \o (IF N = 1 THEN " hour" ELSE " hours")
        /\ origin[2] = <<"bareQuantity", 2>>
        /\ res[2].natural = "for " \o ToString(N) \o (IF N = 1 THEN " day" ELSE " days")
        /\ N < 24 => /\ Len(res) >= 3
                     /\ origin[3] = <<"bareTime", 1>>
                     /\ \A i \in 4..Len(origin) : origin[i][1] # "bareTime"

\* C5: every suggestion of the weekday rule falls on the weekday it matched
\* and is not earlier than the time suggest was called at.
C5_WeekdayResolved ==
  \A i \in 1..Len(origin) :
    origin[i][1] = "weekday" =>
      /\ getDay(res[i].date.t) = DayIndex(origin[i][2])
      /\ res[i].date.t >= now

\* C6: a phrase the calendar engine cannot parse is skipped silently: the
\* call still returns, and no returned suggestion holds an invalid date.
C6_SkipUnparseable ==
  (pc = "done" /\ threw # "RangeError") =>
    /\ threw = "none"
    /\ \A i \in 1..Len(res) : res[i].date.valid

\* C7: "M N" and "N M" are classified alike, N the primary ambiguous digit and
\* M the residual word, and both yield a suggestion for day N of every month
\* that M is a prefix of.
C7_EitherSide ==
  pc = "done" =>
    /\ threw = "none"
    /\ word = arg.m
    /\ digits = <<parseInt(arg.n)>>
    /\ time = <<>>
    /\ dayOfMonth = Undefined
    /\ \A m \in 1..Len(Months) :
         startsWith(Months[m], arg.m) =>
           \E i \in 1..Len(origin) :
             /\ origin[i] = <<"monthDay", m>>
             /\ MonthOf(res[i].date.t) = m
             /\ DateOf(res[i].date.t) = parseInt(arg.n)

\* C8: guessTime gives "8 am" for an absent or zero argument, "<n-12> pm"
\* for n > 12, "<n> pm" for 0 < n < 8 and "<n> am" for 8 <= n <= 12.
C8_GuessTime ==
  pc = "guessed" =>
    /\ arg \in {Undefined, 0} => out = <<"8", " ", "a", "m">>
    /\ arg > 12 => out = numberToString(arg - 12) \o <<" ", "p", "m">>
    /\ (0 < arg /\ arg < 8) => out = numberToString(arg) \o <<" ", "p", "m">>
    /\ (8 <= arg /\ arg <= 12) => out = numberToString(arg) \o <<" ", "a", "m">>
    /\ arg = 15 => out = <<"3", " ", "p", "m">>
    /\ arg = 5 => out = <<"5", " ", "p", "m">>
    /\ arg = 10 => out = <<"1", "0", " ", "a", "m">>

\* guessTime was called on 15 and gave "3 pm".
C8_Witness == pc = "guessed" /\ arg = 15 /\ out = <<"3", " ", "p", "m">>

\* C9: the residual word holds no digit: the digit-run pattern finds no match
\* in it, so running the replacement on it again changes and captures nothing.
C9_NoDigitLeft ==
  (pc # "classify" /\ threw # "RangeError") =>
    /\ \A k \in 1..Len(word) : word[k] \notin Digit
    /\ replaceDigits(word) = [NoFields EXCEPT !.word = word]

\* A call whose input held a word and two digit runs, classified.
C9_Witness ==
  /\ pc = "done" /\ word # <<>> /\ Len(digits) = 2
  /\ \E k \in 1..Len(input) : input[k] \in Digit

RuleRank(r) ==
  CASE r = "bareQuantity" -> 1 [] r = "bareTime" -> 2 [] r = "interval" -> 3
    [] r = "weekday" -> 4 [] r = "monthDay" -> 5 [] r = "today" -> 6
    [] r = "tomorrow" -> 7 [] r = "tonight" -> 8

\* C10: the list is the concatenation of the rules' suggestions in the fixed
\* order of the rules and, within a rule, of its vocabulary: no suggestion of
\* a later rule or entry precedes one of an earlier.
C10_RuleOrder ==
  /\ Len(origin) = Len(res)
  /\ \A i, j \in 1..Len(origin) :
       i < j => \/ RuleRank(origin[i][1]) < RuleRank(origin[j][1])
                \/ /\ origin[i][1] = origin[j][1]
                   /\ origin[i][2] < origin[j][2]
  /\ Returned =>
       LET all == bareQuantity \o bareTime \o interval \o weekday \o monthDay \o today
                    \o tomorrow \o tonight
       IN  /\ Len(res) = Len(all)
           /\ \A i \in 1..Len(res) : /\ res[i].natural = all[i].natural
                                     /\ res[i].date = all[i].date
                                     /\ origin[i] = <<all[i].rule, all[i].entry>>

\* A returned list with suggestions of the weekday rule (two entries), the
\* today, the tomorrow and the tonight rule.
C10_Witness ==
  /\ Returned
  /\ \E i, j, k, l, m \in 1..Len(origin) :
       /\ i < j /\ j < k /\ k < l /\ l < m
       /\ origin[i][1] = "weekday" /\ origin[j][1] = "weekday"
       /\ origin[k][1] = "today" /\ origin[l][1] = "tomorrow" /\ origin[m][1] = "tonight"

====
